---------------------------- MODULE Spec2Model ----------------------------
(***************************************************************************)
(* A model of src/softspi.cpp: a bit-banged SPI master on three GPIO       *)
(* lines (clock m_sck, data-out m_mosi, data-in m_miso).                   *)
(*                                                                         *)
(* The host is single threaded: a call of the binding runs to completion   *)
(* before the next one starts, so a setter never interleaves with write(). *)
(* write() itself is modelled statement by statement (pc names the source  *)
(* line about to run) so that the order of pin accesses is observable.     *)
(*                                                                         *)
(* sck and mosi hold the level last passed to mraa_gpio_write for the      *)
(* clock and the data-out line.  What the GPIO library does with the call  *)
(* is outside the repository.                                              *)
(***************************************************************************)
EXTENDS Integers, Naturals, Sequences, FiniteSets, TLC

VARIABLES
  dev,                      \* "none" | "live" | "dead": the SoftSpi object
  opened,                   \* handles returned by mraa_gpio_init and not closed
  nextHandle,               \* next handle mraa_gpio_init hands out
  m_sck, m_mosi, m_miso,    \* the object's handles; NULL when the open failed
  m_mode, m_cpol,
  m_frequency, m_clockSleepCount, m_betweenByteSleepCount,
  sck, mosi,                \* level last written to the clock / data-out line
  wiring,                   \* what drives data-in: "loopback" | "slave" | "free"
  pc,                       \* "idle", or the source line write() is at
  buffer, i,                \* write: the caller's buffer and the loop index
  byte, result, n,          \* writeByte: shifted byte, accumulator, loop index
  bit, r,                   \* writeBit: argument and sampled value
  slaveByte,                \* byte the slave shifts out during this exchange
  sleepCount, vi,           \* usleepByCounting: argument and the volatile
                            \* counter i; vi = 0 when no wait is running
  \* history variables (not program state)
  orig,                     \* the buffer as handed to write
  events,                   \* pin accesses and waits of the current writeBit
  txBits, rxBits,           \* per element: levels driven / values sampled
  byteWaits,                \* arguments of the waits of line 71, this write
  touched,                  \* buffer indices read or written by this write
  clkBits,                  \* per element: levels written to the clock
  sinceEdge,                \* half-period waits begun since the last clock
                            \* write of the current byte
  prevFrequency, prevClockSleepCount  \* the setFrequency call before the
                            \* last one: its argument (0 before the
                            \* second call) and the count it stored

cfg    == <<m_mode, m_cpol, m_frequency, m_clockSleepCount, m_betweenByteSleepCount>>
hnd    == <<dev, opened, nextHandle, m_sck, m_mosi, m_miso>>
pins   == <<sck, mosi>>
xfer   == <<pc, buffer, i, byte, result, n, bit, r, slaveByte>>
hist   == <<orig, events, txBits, rxBits, byteWaits, touched>>
fhist  == <<prevFrequency, prevClockSleepCount>>
spin   == <<sleepCount, vi>>
pulse  == <<clkBits, sinceEdge>>
vars   == <<cfg, hnd, pins, wiring, xfer, hist, fhist, spin, pulse>>

----------------------------------------------------------------------------
(* Bounds of the model *)

MaxFreq    == 50     \* setFrequency arguments explored by SpecFreq: 0..MaxFreq
MaxModeArg == 4      \* setMode arguments explored: 0..MaxModeArg
MaxLen     == 2      \* longest buffer handed to write

ModeArgs   == 0..MaxModeArg
FreqArgs   == {49}                   \* setFrequency arguments explored by Spec
DelayArgs  == {0, 50000}             \* setBetweenByteDelay_us arguments
TxBytes    == {0, 165}               \* buffer contents explored by Spec (0xA5)
Bytes      == 0..255                 \* uint8_t
SlaveBytes == {60, 165}              \* bytes a slave answers with (0x3C, 0xA5)
Buffers    == UNION {[1..len -> TxBytes] : len \in 0..MaxLen}
FailSets   == SUBSET {"sck", "mosi", "miso"}   \* pins mraa_gpio_init fails on

----------------------------------------------------------------------------
(* Constants of softspi.h *)

NULL                          == 0
LOOPS_PER_SECOND              == 98
DEFAULT_SPI_MODE              == 0
DEFAULT_FREQUENCY             == 7
DEFAULT_BETWEEN_BYTE_DELAY_US == 20000

INT32_MAX == 2147483647
INT32_MIN == (-2147483647) - 1

----------------------------------------------------------------------------
(* IEEE-754 double arithmetic of setFrequency, on small integers *)

RECURSIVE CeilLog2From(_, _)
CeilLog2From(x, q) == IF 2^q >= x THEN q ELSE CeilLog2From(x, q + 1)
\* least q with x <= 2^q
CeilLog2(x) == CeilLog2From(x, 0)

RECURSIVE Pow2Mod(_, _)
\* 2^p mod f
Pow2Mod(p, f) == IF p = 0 THEN 1 % f ELSE (2 * Pow2Mod(p - 1, f)) % f

\* f * fl(1.0/f) - 1, in units of 2^-(52+q), q = CeilLog2(f): the signed
\* rounding error of the 53-bit quotient 1.0/(double)f.
RecipError(f) ==
  LET t == Pow2Mod(52 + CeilLog2(f), f)
  IN  IF 2 * t < f THEN -t ELSE f - t

\* variant: the quotient is rounded to the nearest integer
HalfPeriodTrunc_round(f, L) == (L + f) \div (2 * f)

\* variant: the reciprocal is dropped, (int32_t)((double)f * (double)L / 2.0)
HalfPeriodTrunc_noRecip(f, L) == (f * L) \div 2

\* (int32_t)((1.0 / (double)f) * ((double)L) / 2.0) for f > 0.
\* The product is within 2^-51 of L/f, so the truncation differs from
\* L \div (2f) only when 2f divides L, 1.0/f was rounded down and the
\* product L*fl(1/f) does not round back up to L/f.
HalfPeriodTrunc(f, L) ==
  LET k == L \div (2 * f)
  IN  IF L % (2 * f) # 0 \/ k = 0 THEN k
      ELSE LET e == RecipError(f)
               q == CeilLog2(f)
               j == CeilLog2(2 * k) - 1
           IN  IF e >= 0 \/ 2 * k * (-e) <= 2^(q + j - 1) THEN k ELSE k - 1

\* Values c may hold after line 37.  For frequency = 0 the operand is
\* +infinity and the conversion to int32_t is undefined: the x86 conversion
\* yields INT32_MIN, a saturating conversion INT32_MAX.
HalfPeriodInt32(frequency) ==
  IF frequency = 0 THEN {INT32_MIN, INT32_MAX}
  ELSE {HalfPeriodTrunc(frequency, LOOPS_PER_SECOND)}

\* lines 38-40
ClampCount(c) == IF c < 0 THEN 1 ELSE c

\* (uint32_t)(((double)t / 1000.0 / 1000.0) * (double)LOOPS_PER_SECOND);
\* the double result truncates to the exact quotient for every t in DelayArgs.
BetweenByteCount(t) == (t * LOOPS_PER_SECOND) \div 1000000

----------------------------------------------------------------------------
(* uint8_t arithmetic of writeByte / writeBit *)

ToUint8(x)   == x % 256
\* variant: the mask takes the least significant bit
And0x80_lsb(b) == IF b % 2 = 1 THEN 128 ELSE 0
And0x80(b)   == IF (b \div 128) % 2 = 1 THEN 128 ELSE 0
Shl1(b)      == ToUint8(b * 2)
Or1(a, b)    == IF a % 2 = 1 THEN a ELSE a + b        \* a | b for b in {0,1}
Level(b)     == IF b = 0 THEN 0 ELSE 1                \* (bit == 0) ? 0 : 1
\* variant: the clock is always returned to 0
Idle_low(cpol) == 0
\* variant: the clock is always raised to 1
Active_high(cpol) == 1
Active(cpol) == IF cpol = 0 THEN 1 ELSE 0             \* (m_cpol == 0) ? 1 : 0
Idle(cpol)   == IF cpol = 0 THEN 0 ELSE 1             \* (m_cpol == 0) ? 0 : 1

\* int values mraa_gpio_read can return: a level, or -1 on error
ReadLevels == {0, 1, -1}

\* bit k (7 = most significant) of b
BitOf(b, k) == (b \div (2^k)) % 2

\* what mraa_gpio_read(m_miso) can return now
Samples ==
  IF wiring = "loopback" THEN {mosi}
  ELSE IF wiring = "slave" THEN {BitOf(slaveByte, 7 - n)}
  ELSE ReadLevels

----------------------------------------------------------------------------
(* Setters *)

\* SoftSpi::setFrequency, lines 35-42
setFrequency(frequency) ==
  /\ m_frequency' = frequency
  /\ \E c \in HalfPeriodInt32(frequency) : m_clockSleepCount' = ClampCount(c)

\* variant: the clock line is left for the next transfer to drive
setMode_deferred(mode) ==
  /\ m_mode' = mode
  /\ sck' = sck
  /\ m_cpol' = IF mode = 2 \/ mode = 3 THEN 1 ELSE 0

\* variant: the polarity is taken from the low bit of the mode
setMode_lowBit(mode) ==
  /\ m_mode' = mode
  /\ IF mode = 1 \/ mode = 3
       THEN sck' = 1 /\ m_cpol' = 1
       ELSE sck' = 0 /\ m_cpol' = 0

\* SoftSpi::setMode, lines 49-61
setMode(mode) ==
  /\ m_mode' = mode
  /\ IF mode = 2 \/ mode = 3
       THEN sck' = 1 /\ m_cpol' = 1
       ELSE sck' = 0 /\ m_cpol' = 0

\* SoftSpi::setBetweenByteDelay_us, lines 63-65
setBetweenByteDelay_us(t) ==
  m_betweenByteSleepCount' = BetweenByteCount(t)

----------------------------------------------------------------------------
(* Construction and destruction *)

\* mraa_gpio_init for the three pins, lines 124-134: handle h for a pin
\* that opens, NULL for a pin in fail.
PinHandle(pin, h, fail) == IF pin \in fail THEN NULL ELSE h

\* SoftSpi::New, lines 118-146, and the constructor, lines 19-27.
\* A plain function call opens the pins, then calls the constructor
\* function, which runs New again as a construct call and opens them again.
New(isConstructCall, fail) ==
  LET base == IF isConstructCall THEN nextHandle ELSE nextHandle + 3
      first == IF isConstructCall THEN {}
               ELSE {PinHandle("sck", nextHandle, fail),
                     PinHandle("mosi", nextHandle + 1, fail),
                     PinHandle("miso", nextHandle + 2, fail)} \ {NULL}
  IN  /\ dev = "none"
      /\ dev' = "live"
      /\ m_sck'  = PinHandle("sck", base, fail)
      /\ m_mosi' = PinHandle("mosi", base + 1, fail)
      /\ m_miso' = PinHandle("miso", base + 2, fail)
      /\ opened' = opened \cup first \cup ({m_sck', m_mosi', m_miso'} \ {NULL})
      /\ nextHandle' = base + 3
      /\ setMode(DEFAULT_SPI_MODE)
      /\ setFrequency(DEFAULT_FREQUENCY)
      /\ setBetweenByteDelay_us(DEFAULT_BETWEEN_BYTE_DELAY_US)
      /\ UNCHANGED <<mosi, wiring, xfer, hist, fhist, spin, pulse>>

\* SoftSpi::~SoftSpi, lines 29-33
Destroy ==
  /\ dev = "live" /\ pc = "idle"
  /\ dev' = "dead"
  /\ opened' = opened \ {m_sck, m_mosi, m_miso}
  /\ UNCHANGED <<nextHandle, m_sck, m_mosi, m_miso, cfg, pins, wiring, xfer,
                 hist, fhist, spin, pulse>>

----------------------------------------------------------------------------
(* The binding's methods, lines 148-171 *)

Callable == dev = "live" /\ pc = "idle"

\* variant: frequency() also re-applies the default mode, as the constructor
Frequency_reinit(f) ==
  /\ Callable
  /\ setFrequency(f)
  /\ setMode(DEFAULT_SPI_MODE)
  /\ prevFrequency' = m_frequency
  /\ prevClockSleepCount' = m_clockSleepCount
  /\ UNCHANGED <<m_betweenByteSleepCount, hnd, mosi, wiring, xfer, hist, spin,
                 pulse>>

\* NAN_METHOD(SoftSpi::frequency)
Frequency(f) ==
  /\ Callable
  /\ setFrequency(f)
  /\ prevFrequency' = m_frequency
  /\ prevClockSleepCount' = m_clockSleepCount
  /\ UNCHANGED <<m_mode, m_cpol, m_betweenByteSleepCount, hnd, pins, wiring,
                 xfer, hist, spin, pulse>>

\* NAN_METHOD(SoftSpi::mode)
Mode(m) ==
  /\ Callable
  /\ setMode(m)
  /\ UNCHANGED <<m_frequency, m_clockSleepCount, m_betweenByteSleepCount, hnd,
                 mosi, wiring, xfer, hist, fhist, spin, pulse>>

\* NAN_METHOD(SoftSpi::betweenByteDelay_us)
BetweenByteDelay(t) ==
  /\ Callable
  /\ setBetweenByteDelay_us(t)
  /\ UNCHANGED <<m_mode, m_cpol, m_frequency, m_clockSleepCount, hnd, pins,
                 wiring, xfer, hist, fhist, spin, pulse>>

\* NAN_METHOD(SoftSpi::write): enters SoftSpi::write with the caller's buffer
Write(buf) ==
  /\ Callable
  /\ buffer' = buf /\ orig' = buf
  /\ i' = 0
  /\ pc' = "L68"
  /\ byteWaits' = <<>> /\ touched' = {}
  /\ events' = <<>>
  /\ txBits' = [k \in 1..Len(buf) |-> <<>>]
  /\ rxBits' = [k \in 1..Len(buf) |-> <<>>]
  /\ clkBits' = [k \in 1..Len(buf) |-> <<>>]
  /\ sinceEdge' = 0
  /\ UNCHANGED <<cfg, hnd, pins, wiring, byte, result, n, bit, r, slaveByte,
                 fhist, spin>>

----------------------------------------------------------------------------
(* SoftSpi::usleepByCounting, lines 113-116 *)

\* the next step of a wait is the call / the return
Calling   == vi = 0
Returning == vi >= 1 /\ ~(vi < sleepCount)

\* variant: the loop runs while i <= sleepCount
usleepByCounting_inclusive(count) ==
  IF vi = 0 THEN vi' = 1 /\ sleepCount' = count
  ELSE IF vi <= sleepCount THEN vi' = vi + 1 /\ sleepCount' = sleepCount
  ELSE vi' = 0 /\ sleepCount' = 0

\* variant: the loop body never advances the counter
usleepByCounting_stuck(count) ==
  IF vi = 0 THEN vi' = 1 /\ sleepCount' = count
  ELSE IF vi < sleepCount THEN vi' = vi /\ sleepCount' = sleepCount
  ELSE vi' = 0 /\ sleepCount' = 0

\* One step of usleepByCounting(count): the call with i = 1, one iteration
\* i++ while i < sleepCount, or the return.  i stays below sleepCount, so
\* the uint32_t increment never wraps.
usleepByCounting(count) ==
  IF vi = 0 THEN vi' = 1 /\ sleepCount' = count
  ELSE IF vi < sleepCount THEN vi' = vi + 1 /\ sleepCount' = sleepCount
  ELSE vi' = 0 /\ sleepCount' = 0

----------------------------------------------------------------------------
(* SoftSpi::write, lines 67-73 *)

\* line 68 (loop test), 69 and the call of line 70
WriteLoop ==
  /\ pc = "L68"
  /\ IF i < Len(buffer)
       THEN /\ byte' = buffer[i + 1]
            /\ touched' = touched \cup {i}
            /\ result' = 0
            /\ n' = 0
            /\ \E sb \in (IF wiring = "slave" THEN SlaveBytes ELSE {0}) :
                 slaveByte' = sb
            /\ sinceEdge' = 0
            /\ pc' = "L77"
       ELSE /\ pc' = "L73"
            /\ UNCHANGED <<byte, result, n, slaveByte, touched, sinceEdge>>
  /\ UNCHANGED <<cfg, hnd, pins, wiring, buffer, i, bit, r, orig, events,
                 txBits, rxBits, byteWaits, fhist, spin, clkBits>>

\* variant: no wait after the last byte
ByteSleep_notAfterLast ==
  /\ pc = "L71"
  /\ IF i + 1 < Len(buffer)
       THEN /\ usleepByCounting(m_betweenByteSleepCount)
            /\ byteWaits' = IF Calling
                              THEN Append(byteWaits, m_betweenByteSleepCount)
                              ELSE byteWaits
            /\ i' = IF Returning THEN i + 1 ELSE i
            /\ pc' = IF Returning THEN "L68" ELSE pc
       ELSE /\ i' = i + 1 /\ pc' = "L68"
            /\ UNCHANGED <<byteWaits, spin>>
  /\ UNCHANGED <<cfg, hnd, pins, wiring, buffer, byte, result, n, bit, r,
                 slaveByte, orig, events, txBits, rxBits, touched, fhist,
                 pulse>>

\* line 71, usleepByCounting(m_betweenByteSleepCount), and the increment of
\* line 68 when the wait returns
ByteSleep ==
  /\ pc = "L71"
  /\ usleepByCounting(m_betweenByteSleepCount)
  /\ byteWaits' = IF Calling THEN Append(byteWaits, m_betweenByteSleepCount)
                  ELSE byteWaits
  /\ i' = IF Returning THEN i + 1 ELSE i
  /\ pc' = IF Returning THEN "L68" ELSE pc
  /\ UNCHANGED <<cfg, hnd, pins, wiring, buffer, byte, result, n, bit, r,
                 slaveByte, orig, events, txBits, rxBits, touched, fhist,
                 pulse>>

\* line 73: write returns and the binding hands the buffer back; the
\* locals of the call are gone
WriteReturn ==
  /\ pc = "L73"
  /\ pc' = "idle"
  /\ buffer' = <<>> /\ i' = 0 /\ byte' = 0 /\ result' = 0 /\ n' = 0
  /\ bit' = 0 /\ r' = 0 /\ slaveByte' = 0
  /\ orig' = <<>> /\ events' = <<>> /\ txBits' = <<>> /\ rxBits' = <<>>
  /\ byteWaits' = <<>> /\ touched' = {}
  /\ clkBits' = <<>> /\ sinceEdge' = 0
  /\ UNCHANGED <<cfg, hnd, pins, wiring, fhist, spin>>

----------------------------------------------------------------------------
(* SoftSpi::writeByte, lines 75-84 *)

\* line 77 (loop test), 78, 79 and the call of line 80; after the eighth
\* bit line 83 and the assignment of line 70
ByteLoop ==
  /\ pc = "L77"
  /\ IF n < 8
       THEN /\ bit' = And0x80(byte)
            /\ result' = Shl1(result)
            /\ events' = <<>>
            /\ pc' = "L87"
            /\ UNCHANGED <<buffer, touched>>
       ELSE /\ buffer' = [buffer EXCEPT ![i + 1] = result]
            /\ touched' = touched \cup {i}
            /\ pc' = "L71"
            /\ UNCHANGED <<bit, result, events>>
  /\ UNCHANGED <<cfg, hnd, pins, wiring, i, byte, n, r, slaveByte, orig,
                 txBits, rxBits, byteWaits, fhist, spin, pulse>>

\* writeBit returns v: rest of line 80, line 81 and the increment of line 77
BitReturn(v) ==
  /\ result' = Or1(result, IF ToUint8(v) = 0 THEN 0 ELSE 1)
  /\ byte' = Shl1(byte)
  /\ n' = n + 1
  /\ pc' = "L77"

----------------------------------------------------------------------------
(* SoftSpi::writeBit, lines 86-111 *)

\* the tests of lines 87, 97 and 107
BitEnter ==
  /\ pc = "L87"
  /\ pc' = IF m_mode = 0 \/ m_mode = 2 THEN "L90"
           ELSE IF m_mode = 1 \/ m_mode = 3 THEN "L100"
           ELSE "L108"
  /\ UNCHANGED <<cfg, hnd, pins, wiring, buffer, i, byte, result, n, bit, r,
                 slaveByte, hist, fhist, spin, pulse>>

\* mraa_gpio_write(m_mosi, (bit == 0) ? 0 : 1), lines 90 and 101
WriteMosi(at, next) ==
  /\ pc = at
  /\ mosi' = Level(bit)
  /\ events' = Append(events, <<"mosi", Level(bit)>>)
  /\ txBits' = [txBits EXCEPT ![i + 1] = Append(@, Level(bit))]
  /\ pc' = next
  /\ UNCHANGED <<cfg, hnd, sck, wiring, buffer, i, byte, result, n, bit, r,
                 slaveByte, orig, rxBits, byteWaits, touched, fhist, spin,
                 pulse>>

\* usleepByCounting(m_clockSleepCount), lines 91, 94 and 102
HalfPeriod(at, next) ==
  /\ pc = at
  /\ usleepByCounting(m_clockSleepCount)
  /\ events' = IF Calling THEN Append(events, <<"wait", m_clockSleepCount>>)
               ELSE events
  /\ sinceEdge' = IF Calling THEN sinceEdge + 1 ELSE sinceEdge
  /\ pc' = IF Returning THEN next ELSE pc
  /\ UNCHANGED <<cfg, hnd, pins, wiring, buffer, i, byte, result, n, bit, r,
                 slaveByte, orig, txBits, rxBits, byteWaits, touched, fhist,
                 clkBits>>

\* uint8_t r = mraa_gpio_read(m_miso), lines 92 and 104
ReadMiso(at, next) ==
  /\ pc = at
  /\ \E v \in Samples :
       /\ r' = ToUint8(v)
       /\ events' = Append(events, <<"read", ToUint8(v)>>)
       /\ rxBits' = [rxBits EXCEPT ![i + 1] = Append(@, ToUint8(v))]
  /\ pc' = next
  /\ UNCHANGED <<cfg, hnd, pins, wiring, buffer, i, byte, result, n, bit,
                 slaveByte, orig, txBits, byteWaits, touched, fhist, spin,
                 pulse>>

\* mraa_gpio_write(m_sck, level), lines 93, 100 and 103
WriteSck(at, level, next) ==
  /\ pc = at
  /\ sck' = level
  /\ events' = Append(events, <<"sck", level>>)
  /\ clkBits' = [clkBits EXCEPT ![i + 1] = Append(@, level)]
  /\ sinceEdge' = 0
  /\ pc' = next
  /\ UNCHANGED <<cfg, hnd, mosi, wiring, buffer, i, byte, result, n, bit, r,
                 slaveByte, orig, txBits, rxBits, byteWaits, touched, fhist,
                 spin>>

\* lines 95-96: the clock goes back to idle and writeBit returns r
WriteSckReturn ==
  /\ pc = "L95"
  /\ sck' = Idle(m_cpol)
  /\ events' = Append(events, <<"sck", Idle(m_cpol)>>)
  /\ clkBits' = [clkBits EXCEPT ![i + 1] = Append(@, Idle(m_cpol))]
  /\ sinceEdge' = 0
  /\ BitReturn(r)
  /\ UNCHANGED <<cfg, hnd, mosi, wiring, buffer, i, bit, r, slaveByte, orig,
                 txBits, rxBits, byteWaits, touched, fhist, spin>>

\* lines 105-106: the second half period, then writeBit returns r
HalfPeriodReturn ==
  /\ pc = "L105"
  /\ usleepByCounting(m_clockSleepCount)
  /\ events' = IF Calling THEN Append(events, <<"wait", m_clockSleepCount>>)
               ELSE events
  /\ sinceEdge' = IF Calling THEN sinceEdge + 1 ELSE sinceEdge
  /\ IF Returning THEN BitReturn(r) ELSE UNCHANGED <<result, byte, n, pc>>
  /\ UNCHANGED <<cfg, hnd, pins, wiring, buffer, i, bit, r, slaveByte, orig,
                 txBits, rxBits, byteWaits, touched, fhist, clkBits>>

\* lines 108-109: the diagnostic, and writeBit returns (uint8_t)-1
Unhandled ==
  /\ pc = "L108"
  /\ events' = Append(events, <<"printf", m_mode>>)
  /\ BitReturn(-1)
  /\ UNCHANGED <<cfg, hnd, pins, wiring, buffer, i, bit, r, slaveByte, orig,
                 txBits, rxBits, byteWaits, touched, fhist, spin, pulse>>

\* variant: data-in is sampled after the leading clock edge
BitCpha0_sampleAfterEdge ==
  \/ WriteMosi("L90", "L91")
  \/ HalfPeriod("L91", "L92")
  \/ WriteSck("L92", Active(m_cpol), "L93")
  \/ ReadMiso("L93", "L94")
  \/ HalfPeriod("L94", "L95")
  \/ WriteSckReturn

\* modes 0 and 2, lines 90-96
BitCpha0 ==
  \/ WriteMosi("L90", "L91")
  \/ HalfPeriod("L91", "L92")
  \/ ReadMiso("L92", "L93")
  \/ WriteSck("L93", Active(m_cpol), "L94")
  \/ HalfPeriod("L94", "L95")
  \/ WriteSckReturn

\* variant: data-in is sampled before the trailing clock edge
BitCpha1_sampleBeforeEdge ==
  \/ WriteSck("L100", Active(m_cpol), "L101")
  \/ WriteMosi("L101", "L102")
  \/ HalfPeriod("L102", "L103")
  \/ ReadMiso("L103", "L104")
  \/ WriteSck("L104", Idle(m_cpol), "L105")
  \/ HalfPeriodReturn

\* modes 1 and 3, lines 100-106
BitCpha1 ==
  \/ WriteSck("L100", Active(m_cpol), "L101")
  \/ WriteMosi("L101", "L102")
  \/ HalfPeriod("L102", "L103")
  \/ WriteSck("L103", Idle(m_cpol), "L104")
  \/ ReadMiso("L104", "L105")
  \/ HalfPeriodReturn

writeBit == BitEnter \/ BitCpha0 \/ BitCpha1 \/ Unhandled

----------------------------------------------------------------------------
(* Specifications *)

\* Before SoftSpi::New runs there is no object; its fields hold placeholders.
NoObject ==
  /\ dev = "none" /\ opened = {} /\ nextHandle = 1
  /\ m_sck = NULL /\ m_mosi = NULL /\ m_miso = NULL
  /\ m_mode = 0 /\ m_cpol = 0
  /\ m_frequency = 0 /\ m_clockSleepCount = 0 /\ m_betweenByteSleepCount = 0
  /\ sck \in {0, 1} /\ mosi \in {0, 1}
  /\ pc = "idle"
  /\ buffer = <<>> /\ i = 0 /\ byte = 0 /\ result = 0 /\ n = 0
  /\ bit = 0 /\ r = 0 /\ slaveByte = 0
  /\ orig = <<>> /\ events = <<>> /\ txBits = <<>> /\ rxBits = <<>>
  /\ byteWaits = <<>> /\ touched = {}
  /\ prevFrequency = 0 /\ prevClockSleepCount = 0
  /\ sleepCount = 0 /\ vi = 0
  /\ clkBits = <<>> /\ sinceEdge = 0

Init == NoObject /\ wiring \in {"loopback", "slave"}

Step == WriteLoop \/ ByteLoop \/ writeBit \/ ByteSleep \/ WriteReturn

Next ==
  \/ New(TRUE, {})
  \/ \E f \in FreqArgs : Frequency(f)
  \/ \E m \in ModeArgs : Mode(m)
  \/ \E t \in DelayArgs : BetweenByteDelay(t)
  \/ \E buf \in Buffers : Write(buf)
  \/ Step
  \/ Destroy

Spec == Init /\ [][Next]_vars

\* setFrequency alone, over every argument 0..MaxFreq
NextFreq ==
  \/ New(TRUE, {})
  \/ \E f \in 0..MaxFreq : Frequency(f)

SpecFreq == Init /\ [][NextFreq]_vars

\* one-byte loopback transfers of every byte value
InitByte == Init /\ wiring = "loopback"

NextByte ==
  \/ New(TRUE, {})
  \/ \E m \in ModeArgs : Mode(m)
  \/ \E b \in Bytes : Write(<<b>>)
  \/ Step

SpecByte == InitByte /\ [][NextByte]_vars

\* construction on both paths of New with every set of pins failing to open
NextPins ==
  \/ \E c \in BOOLEAN, fail \in FailSets : New(c, fail)
  \/ \E m \in ModeArgs : Mode(m)
  \/ \E b \in TxBytes : Write(<<b>>)
  \/ Step
  \/ Destroy

SpecPins == Init /\ [][NextPins]_vars

\* one-byte transfers with data-in returning any value at every sample
InitBits == NoObject /\ wiring = "free"

NextBits ==
  \/ New(TRUE, {})
  \/ \E m \in ModeArgs : Mode(m)
  \/ \E b \in TxBytes : Write(<<b>>)
  \/ Step

SpecBits == InitBits /\ [][NextBits]_vars

\* A call that has started keeps running: the thread executes the next
\* statement of write as long as there is one.
SpecLive == Init /\ [][Next]_vars /\ WF_vars(Step)

----------------------------------------------------------------------------
(* Vocabulary of the properties *)

ValidModes  == {0, 1, 2, 3}
\* the table of the comment of lines 44-48: CPOL of modes 0, 1, 2, 3
DerivedCPOL == <<0, 0, 1, 1>>
InBit       == {"L87", "L90", "L91", "L92", "L93", "L94", "L95",
                "L100", "L101", "L102", "L103", "L104", "L105", "L108"}
\* the levels of byte b, most significant bit first
BitsMSB(b)  == [k \in 1..8 |-> BitOf(b, 8 - k)]
RECURSIVE Assemble(_)
\* the byte made of the sampled values s, first sample most significant,
\* a non-zero sample counting as 1
Assemble(s) ==
  IF s = <<>> THEN 0
  ELSE 2 * Assemble(SubSeq(s, 1, Len(s) - 1)) + Level(s[Len(s)])

----------------------------------------------------------------------------
(* Properties *)

\* C1: setMode with a mode outside {0,1,2,3} is rejected: it leaves the
\* configured mode, the derived CPOL and the clock level as they were.
C1_InvalidModeRejected ==
  [][\A m \in ModeArgs \ ValidModes :
       Mode(m) => UNCHANGED <<m_mode, m_cpol, sck>>]_vars

\* C2: after setFrequency(f) with f > 0 the stored half-period count
\* m_clockSleepCount is at least 1.
C2_HalfPeriodAtLeastOne ==
  (dev = "live" /\ m_frequency > 0) => m_clockSleepCount >= 1

\* C3: with data-in tied to data-out, writeByte(b) returns b for every byte
\* b and every mode 0..3, and a transfer hands the buffer back unchanged.
C3_Loopback ==
  (wiring = "loopback" /\ m_mode \in ValidModes) =>
     /\ (pc = "L77" /\ n = 8) => result = orig[i + 1]
     /\ pc = "L73" => buffer = orig

C3_Witness ==
  /\ wiring = "loopback" /\ m_mode = 3
  /\ pc = "L77" /\ n = 8 /\ orig = <<165>> /\ result = 165

\* C4: when setMode(m) returns for a valid m, and when the constructor
\* returns, the level last written to the clock line is the CPOL of the mode.
C4_ClockIdleOnSetMode ==
  [][/\ \A m \in ValidModes : Mode(m) => sck' = DerivedCPOL[m + 1]
     /\ (dev = "none" /\ dev' = "live") =>
           sck' = DerivedCPOL[DEFAULT_SPI_MODE + 1]]_vars

C4_Witness ==
  dev = "live" /\ pc = "idle" /\ m_mode = 3 /\ sck = 1 /\ buffer = <<>>

\* C5: setMode(m) stores the CPOL of the table 0->0, 1->0, 2->1, 3->1 for
\* every valid m, and no other operation changes CPOL.
C5_CpolTable ==
  [][/\ \A m \in ValidModes : Mode(m) => m_cpol' = DerivedCPOL[m + 1]
     /\ m_cpol' # m_cpol => \E m \in ModeArgs : setMode(m)]_vars

C5_Witness ==
  dev = "live" /\ m_mode = 2 /\ m_cpol = 1

\* C6: when write returns, every element k was driven out as the bits of its
\* value before the transfer, holds the byte assembled from the 8 samples of
\* its own exchange, and no index outside the buffer was read or written.
C6_InPlacePerElement ==
  pc = "L73" =>
     /\ Len(buffer) = Len(orig)
     /\ \A k \in 1..Len(orig) :
          /\ txBits[k] = BitsMSB(orig[k])
          /\ Len(rxBits[k]) = 8
          /\ buffer[k] = Assemble(rxBits[k])
     /\ touched = 0..(Len(orig) - 1)

\* C7: a write waits m_betweenByteSleepCount once after every byte, the
\* last included, never before the first byte and never for an empty buffer.
C7_InterByteWaits ==
  pc # "idle" =>
     /\ Len(byteWaits) = (IF pc = "L71" /\ vi >= 1 THEN i + 1 ELSE i)
     /\ \A k \in 1..Len(byteWaits) : byteWaits[k] = m_betweenByteSleepCount
     /\ pc = "L73" => Len(byteWaits) = Len(orig)

C7_Witness ==
  /\ pc = "L73" /\ Len(orig) = 2 /\ Len(byteWaits) = 2
  /\ m_betweenByteSleepCount = 4 /\ byteWaits[2] = 4

\* C8: writeBit never runs with a mode outside {0,1,2,3}; the unhandled-mode
\* branch of lines 107-110 is never reached.
C8_NoBitInInvalidMode ==
  pc \in InBit => (m_mode \in ValidModes /\ pc # "L108")

\* C9: for 0 < f1 < f2 the half-period count stored by setFrequency(f2) is
\* at most the one stored by setFrequency(f1).
C9_Monotonic ==
  (dev = "live" /\ prevFrequency > 0 /\ m_frequency > 0) =>
     /\ prevFrequency < m_frequency => m_clockSleepCount <= prevClockSleepCount
     /\ m_frequency < prevFrequency => prevClockSleepCount <= m_clockSleepCount

C9_Witness ==
  /\ prevFrequency = 7 /\ prevClockSleepCount = 7
  /\ m_frequency = 49 /\ m_clockSleepCount = 0

\* C10: no SoftSpi object exists, and so none is written through, with a
\* handle of a pin that failed to open.
C10_NoDeviceOnFailedPin ==
  dev # "none" => (m_sck # NULL /\ m_mosi # NULL /\ m_miso # NULL)

\* C11: every handle mraa_gpio_init returned is held by the one SoftSpi
\* object, and once the object is destroyed no opened handle is left
\* unclosed.
C11_NoHandleLeak ==
  /\ dev = "live" => opened \subseteq {m_sck, m_mosi, m_miso}
  /\ dev = "dead" => opened = {}

\* a writeBit call has just returned: events holds its accesses, bit its
\* argument and r the value it sampled
BitDone == pc = "L77" /\ n >= 1
\* the level of the bit of element i that the call just returned sent
SentBit == BitOf(orig[i + 1], 8 - n)

C14_MsbFirst ==
  (pc = "L77" /\ n = 8) =>
     /\ txBits[i + 1] = BitsMSB(orig[i + 1])
     /\ Len(rxBits[i + 1]) = 8
     /\ LET s == rxBits[i + 1]
        IN  result = 128 * Level(s[1]) + 64 * Level(s[2]) + 32 * Level(s[3])
                     + 16 * Level(s[4]) + 8 * Level(s[5]) + 4 * Level(s[6])
                     + 2 * Level(s[7]) + Level(s[8])

\* LOOPS_PER_SECOND / (2 hz) rounded to the nearest integer, halves upwards
RoundedHalfPeriod(hz) == (LOOPS_PER_SECOND + hz) \div (2 * hz)

\* C15 as stated: setFrequency(hz) stores LOOPS_PER_SECOND / (2 hz) rounded
\* to the nearest integer whenever that is at least 1.
C15_RoundsToNearest ==
  (dev = "live" /\ m_frequency > 0 /\ RoundedHalfPeriod(m_frequency) >= 1) =>
     m_clockSleepCount = RoundedHalfPeriod(m_frequency)

\* C15 amended: setFrequency(hz) stores the quotient LOOPS_PER_SECOND / (2 hz)
\* with its fraction discarded, never rounded up; when 2 hz divides
\* LOOPS_PER_SECOND the double product may fall just short of the integer
\* and the count stored is then one less.
C15_Truncates ==
  (dev = "live" /\ m_frequency > 0) =>
     LET k == LOOPS_PER_SECOND \div (2 * m_frequency)
     IN  \/ m_clockSleepCount = k
         \/ /\ LOOPS_PER_SECOND % (2 * m_frequency) = 0
            /\ m_clockSleepCount = k - 1

C15_Witness ==
  dev = "live" /\ m_frequency = 17 /\ m_clockSleepCount = 2

\* C16: every write that has started reaches its return with all
\* Len(buffer) bytes processed and goes back to the caller, and every
\* usleepByCounting that has started returns.
C16_Terminates ==
  /\ (pc # "idle") ~> (pc = "L73" /\ i = Len(orig))
  /\ (pc # "idle") ~> (pc = "idle")
  /\ (vi >= 1) ~> (vi = 0)

C16_Witness ==
  /\ pc = "L73" /\ Len(orig) = 2 /\ i = 2
  /\ m_clockSleepCount = 0 /\ m_betweenByteSleepCount = 1

\* C17: whenever no writeBit is running - after construction, after a
\* setter, after every writeBit, writeByte and write - the level last
\* written to the clock line is the current CPOL.
C17_ClockIdle ==
  (dev # "none" /\ pc \notin InBit) => sck = m_cpol

C17_Witness ==
  dev = "live" /\ pc = "L77" /\ n = 4 /\ m_mode = 3 /\ sck = 1

\* eight clock pulses of a mode with polarity cpol: active, idle, eight times
EightPulses(cpol) == [j \in 1..16 |-> IF j % 2 = 1 THEN 1 - cpol ELSE cpol]

\* C18: in a valid mode a write of n bytes makes 8 clock pulses and 8
\* samples per byte; every clock write of the transfer changes the clock
\* level, and exactly one half-period wait lies between two consecutive
\* clock writes of a byte.
C18_PulseShape ==
  /\ [](( m_mode \in ValidModes /\ pc = "L73") =>
          \A k \in 1..Len(orig) :
             /\ clkBits[k] = EightPulses(DerivedCPOL[m_mode + 1])
             /\ Len(rxBits[k]) = 8)
  /\ [][(m_mode \in ValidModes /\ pc \in InBit /\ clkBits' # clkBits) =>
          /\ sck' # sck
          /\ Len(clkBits[i + 1]) > 0 => sinceEdge = 1]_vars

C18_Witness ==
  /\ pc = "L73" /\ m_mode = 2 /\ Len(orig) = 2
  /\ Len(clkBits[2]) = 16 /\ clkBits[1][1] = 0 /\ Len(rxBits[2]) = 8

\* C19: setFrequency and setBetweenByteDelay_us write no pin and change
\* neither the mode nor CPOL nor the other delay count; setMode leaves
\* data-out and both delay counts alone; a transfer leaves mode, CPOL and
\* both delay counts alone and only ever reads the data-in line.
C19_Frames ==
  [][/\ \A f \in FreqArgs : Frequency(f) =>
          UNCHANGED <<sck, mosi, m_mode, m_cpol, m_betweenByteSleepCount>>
     /\ (dev = "live" /\ <<m_frequency, m_clockSleepCount>>' #
                         <<m_frequency, m_clockSleepCount>>) =>
          UNCHANGED <<sck, mosi, m_mode, m_cpol, m_betweenByteSleepCount>>
     /\ \A t \in DelayArgs : BetweenByteDelay(t) =>
          UNCHANGED <<sck, mosi, m_mode, m_cpol, m_frequency,
                      m_clockSleepCount>>
     /\ (dev = "live" /\ m_betweenByteSleepCount' # m_betweenByteSleepCount) =>
          UNCHANGED <<sck, mosi, m_mode, m_cpol, m_frequency,
                      m_clockSleepCount>>
     /\ \A m \in ModeArgs : Mode(m) =>
          UNCHANGED <<mosi, m_frequency, m_clockSleepCount,
                      m_betweenByteSleepCount>>
     /\ (dev = "live" /\ m_mode' # m_mode) =>
          UNCHANGED <<mosi, m_frequency, m_clockSleepCount,
                      m_betweenByteSleepCount>>
     /\ (pc # "idle" \/ pc' # "idle") =>
          /\ UNCHANGED <<m_mode, m_cpol, m_frequency, m_clockSleepCount,
                         m_betweenByteSleepCount>>
          /\ \A k \in 1..Len(events') :
               events'[k][1] \in {"mosi", "sck", "read", "wait", "printf"}
    ]_vars

C19_Witness ==
  /\ dev = "live" /\ pc = "L73" /\ Len(orig) = 1
  /\ m_mode = 3 /\ m_cpol = 1 /\ m_frequency = 49 /\ m_clockSleepCount = 0
  /\ m_betweenByteSleepCount = 4 /\ prevFrequency = 7

\* C20: usleepByCounting(n) counts from 1 up to but excluding n, so it runs
\* max(0, n - 1) iterations (none for n = 0 and n = 1), and no step of it
\* touches a pin, a field of the object or the buffer.
C20_CountsBelowN ==
  [][/\ (vi = 0 /\ vi' >= 1) => vi' = 1
     /\ (vi >= 1 /\ vi' >= 1) => (vi < sleepCount /\ vi' = vi + 1)
     /\ (vi >= 1 /\ vi' = 0) =>
          vi - 1 = (IF sleepCount >= 1 THEN sleepCount - 1 ELSE 0)
     /\ (vi >= 1 \/ vi' >= 1) => UNCHANGED <<cfg, pins, hnd, buffer>>
    ]_vars

C20_Witness ==
  pc = "L71" /\ sleepCount = 4 /\ vi = 4

=============================================================================
